---- MODULE Spec2Model ----
(***************************************************************************)
(* stest: filter a list of files by properties (src/src/stest.rs).         *)
(*                                                                         *)
(* A path is the sequence of its characters; a character is a one-letter   *)
(* string, or NonUtf8 (a byte that is not valid UTF-8), or Nul.  Option    *)
(* and Result values are sequences: None/Err is <<>>, Some(x)/Ok(x) is     *)
(* <<x>>.                                                                  *)
(***************************************************************************)
EXTENDS Integers, Sequences, FiniteSets, TLC

\* ---------------------------------------------------------------- bounds
\* Largest number of input paths in opt.files.
MaxFiles == 2
\* Largest number of command line options that are switched on together.
MaxFlags == 2

\* ------------------------------------------------------- libc constants
S_IFMT == 61440
S_IFREG == 32768
S_IFDIR == 16384
S_IFBLK == 24576
S_IFCHR == 8192
S_IFIFO == 4096
S_IFLNK == 40960
S_ISUID == 2048
S_ISGID == 1024
R_OK == 4
W_OK == 2
X_OK == 1

\* ------------------------------------------------------ Option / Result
None == <<>>
Some(x) == <<x>>

\* ------------------------------------------------------------ integers
RECURSIVE BitAnd(_, _)
\* The & operator on unsigned integers.
BitAnd(a, b) ==
    IF a = 0 \/ b = 0 THEN 0
    ELSE (IF a % 2 = 1 /\ b % 2 = 1 THEN 1 ELSE 0) + 2 * BitAnd(a \div 2, b \div 2)

\* ---------------------------------------------------------------- paths
NonUtf8 == "<FF>"
Nul == "<NUL>"
Sep == "/"

\* Path::to_str / OsStr::to_str: the string form, if the bytes are UTF-8.
to_str(p) == IF \E i \in DOMAIN p : p[i] = NonUtf8 THEN None ELSE Some(p)

\* CString::new(..).ok(): fails on an interior NUL byte.
CStringNew(s) == IF \E i \in DOMAIN s : s[i] = Nul THEN None ELSE Some(s)

\* str::starts_with('.')
starts_with_dot(s) == Len(s) > 0 /\ s[1] = "."

RECURSIVE Comps(_, _, _)
\* The separator-delimited, non-empty pieces of p from position i on.
Comps(p, i, cur) ==
    IF i > Len(p)
    THEN (IF cur = <<>> THEN <<>> ELSE <<cur>>)
    ELSE IF p[i] = Sep
         THEN (IF cur = <<>> THEN <<>> ELSE <<cur>>) \o Comps(p, i + 1, <<>>)
         ELSE Comps(p, i + 1, Append(cur, p[i]))

\* Path::file_name: the final component if it is a normal one; "." pieces
\* are not components (a leading one is CurDir), ".." is ParentDir.
file_name(p) ==
    LET cs == Comps(p, 1, <<>>)
        normal == {i \in DOMAIN cs : cs[i] # <<".">>}
    IN  IF normal = {} THEN None
        ELSE LET j == CHOOSE i \in normal : \A k \in normal : k <= i
             IN  IF cs[j] = <<".", ".">> THEN None ELSE Some(cs[j])

\* DirEntry::path: the directory's path joined with the entry's name.
JoinPath(dir, name) ==
    IF Len(dir) > 0 /\ dir[Len(dir)] = Sep THEN dir \o name ELSE dir \o <<Sep>> \o name

\* ----------------------------------------------------------- filesystem
\* The files the runs below are started on.
PathA == <<"a">>
PathD == <<".", "/", "d">>
PathM == <<"m">>
PathB == <<NonUtf8>>
RefP == <<"p">>
RefQ == <<"q">>
RefR == <<"r">>

File(mode, len, mtime, acc) ==
    [st_mode |-> mode, len |-> len, mtime |-> mtime, acc |-> acc,
     target |-> <<>>, entries |-> <<>>]
Dir(mode, mtime, acc, entries) ==
    [st_mode |-> mode, len |-> 1, mtime |-> mtime, acc |-> acc,
     target |-> <<>>, entries |-> entries]
Link(mtime, target) ==
    [st_mode |-> S_IFLNK + 511, len |-> Len(target), mtime |-> mtime, acc |-> 7,
     target |-> target, entries |-> <<>>]

\* The names readdir yields for ./d, in the order it yields them.
EntriesD ==
    << <<"f">>, <<".", "h">>, <<"s">>, <<"l">>, <<"x">>, <<"o">>, <<"b">>,
       <<"c">>, <<NonUtf8, "n">> >>
EntriesB == << <<"k">>, <<"j">> >>

\* The inode at path p itself (lstat), if there is one.
Node(p) ==
    CASE p = PathA -> Some(File(S_IFREG + S_ISGID + 420, 5, 3, 6))
      [] p = PathD -> Some(Dir(S_IFDIR + 493, 2, 7, EntriesD))
      [] p = PathB -> Some(Dir(S_IFDIR + 493, 2, 7, EntriesB))
      [] p = RefP -> Some(File(S_IFREG + 420, 1, 2, 6))
      [] p = RefQ -> Some(File(S_IFREG + 420, 1, 4, 6))
      [] p = JoinPath(PathD, <<"f">>) -> Some(File(S_IFREG + S_ISUID + 493, 0, 2, 7))
      [] p = JoinPath(PathD, <<".", "h">>) -> Some(File(S_IFREG + 420, 1, 1, 6))
      [] p = JoinPath(PathD, <<"s">>) -> Some(Dir(S_IFDIR + 448, 4, 0, <<>>))
      [] p = JoinPath(PathD, <<"l">>) -> Some(Link(5, PathA))
      [] p = JoinPath(PathD, <<"x">>) -> Some(Link(5, PathM))
      [] p = JoinPath(PathD, <<"o">>) -> Some(File(S_IFIFO + 420, 0, 3, 6))
      [] p = JoinPath(PathD, <<"b">>) -> Some(File(S_IFBLK + 432, 0, 3, 4))
      [] p = JoinPath(PathD, <<"c">>) ->
             Some(File(S_IFCHR + S_ISUID + S_ISGID + 438, 0, 5, 6))
      [] p = JoinPath(PathD, <<NonUtf8, "n">>) -> Some(File(S_IFREG + 420, 1, 3, 6))
      [] p = JoinPath(PathB, <<"k">>) -> Some(Link(3, PathD))
      [] p = JoinPath(PathB, <<"j">>) -> Some(File(S_IFREG + 420, 2, 3, 6))
      [] OTHER -> None

\* Path::symlink_metadata
symlink_metadata(p) == Node(p)

RECURSIVE metadata(_)
\* Path::metadata: follows symbolic links.
metadata(p) ==
    LET n == Node(p)
    IN  IF n = None THEN None
        ELSE IF BitAnd(n[1].st_mode, S_IFMT) = S_IFLNK THEN metadata(n[1].target)
        ELSE n

\* Metadata::is_dir, Metadata::is_file, FileType::is_symlink
is_dir(file) == BitAnd(file.st_mode, S_IFMT) = S_IFDIR
is_file(file) == BitAnd(file.st_mode, S_IFMT) = S_IFREG
ft_is_symlink(file) == BitAnd(file.st_mode, S_IFMT) = S_IFLNK

\* Path::read_dir followed by the filter_map that keeps the readable
\* entries' paths.
read_dir(p) ==
    LET m == metadata(p)
    IN  IF m = None \/ ~is_dir(m[1]) \/ BitAnd(m[1].acc, R_OK) = 0 THEN None
        ELSE Some([i \in DOMAIN m[1].entries |-> JoinPath(p, m[1].entries[i])])

\* ------------------------------------------------------------------ Opt
\* The command line letters of the options of struct Opt.
OptNames ==
    {"a", "b", "c", "d", "f", "g", "h", "l", "n", "o", "p", "q", "r", "s", "u",
     "v", "w", "x"}

\* The paths given as input files.
InputPaths == {PathA, PathD, PathM, PathB}

\* The Opt that the option letters in on, the two reference paths and the
\* file list parse to.
MkOpt(on, newer, older, files) ==
    [hidden |-> "a" \in on, block_special |-> "b" \in on,
     char_special |-> "c" \in on, directory |-> "d" \in on,
     regular |-> "f" \in on, set_gid_set |-> "g" \in on,
     symbolic_link |-> "h" \in on, dir_contents |-> "l" \in on,
     newer_than |-> IF "n" \in on THEN Some(newer) ELSE None,
     older_than |-> IF "o" \in on THEN Some(older) ELSE None,
     fifo |-> "p" \in on, quiet |-> "q" \in on, readable |-> "r" \in on,
     not_empty |-> "s" \in on, set_uid_set |-> "u" \in on,
     invert |-> "v" \in on, writable |-> "w" \in on,
     executable |-> "x" \in on, files |-> files]

\* ------------------------------------------------------------ utilities
\* s_isval: the file type code of the mode.
s_isval(s_ifval, file) == BitAnd(file.st_mode, S_IFMT) = s_ifval

\* s_isset: a flag of the mode.
s_isset(s_isflg, file) == BitAnd(file.st_mode, s_isflg) # 0

\* is_symlink with the query that follows the link.
is_symlink_followed(path) ==
    LET link == metadata(path)
    IN  link # None /\ ft_is_symlink(link[1])

\* is_symlink: the path itself, not followed, is a symbolic link.
is_symlink(path) ==
    LET link == symlink_metadata(path)
    IN  link # None /\ ft_is_symlink(link[1])

\* access: libc's access(2) on the path, which follows symbolic links.
access(rwx, c_path) ==
    LET m == metadata(c_path)
    IN  m # None /\ BitAnd(m[1].acc, rwx) = rwx

\* reduce with the conjunction in place of the disjunction.
reduce_and(acc, x) == acc /\ x

\* reduce: accumulates the outcomes of several files.
reduce(acc, x) == acc \/ x

\* ----------------------------------------------------------- Stest::test
\* The hidden file conjunct left out.
HiddenOkAlways(o, name) == TRUE

\* The hidden file conjunct.
HiddenOk(o, name) == o.hidden \/ ~starts_with_dot(name)

\* The set-group-ID conjunct.
SetGidOk(o, file) == ~o.set_gid_set \/ s_isset(S_ISGID, file)

\* The set-user-ID conjunct.
SetUidOk(o, file) == ~o.set_gid_set \/ s_isset(S_ISUID, file)

\* The symbolic link conjunct.
SymlinkOk(o, path) == ~o.symbolic_link \/ is_symlink(path)

\* The newer-than conjunct.
NewerOk(o, cmp, file) == ~(o.newer_than # None) \/ cmp[1] < file.mtime

\* The older-than conjunct.
OlderOk(o, cmp, file) == ~(o.older_than # None) \/ file.mtime < cmp[1]

\* The conjunction of the enabled tests on an accessible file.
TestAll(o, cmp, path, name, file, c_path) ==
    /\ HiddenOk(o, name)
    /\ (~o.block_special \/ s_isval(S_IFBLK, file))
    /\ (~o.char_special \/ s_isval(S_IFCHR, file))
    /\ (~o.directory \/ is_dir(file))
    /\ (~o.regular \/ is_file(file))
    /\ SetGidOk(o, file)
    /\ SymlinkOk(o, path)
    /\ NewerOk(o, cmp, file)
    /\ OlderOk(o, cmp, file)
    /\ (~o.fifo \/ s_isval(S_IFIFO, file))
    /\ (~o.readable \/ access(R_OK, c_path))
    /\ (~o.not_empty \/ file.len > 0)
    /\ SetUidOk(o, file)
    /\ (~o.writable \/ access(W_OK, c_path))
    /\ (~o.executable \/ access(X_OK, c_path))

\* The C string of the path, if it has one.
CPath(path) ==
    LET s == to_str(path) IN IF s = None THEN None ELSE CStringNew(s[1])

\* The outcome before inversion: false unless the file is accessible.
TestPlain(o, cmp, path, name) ==
    LET file == metadata(path)
        c_path == CPath(path)
    IN  IF file # None /\ c_path # None
        THEN TestAll(o, cmp, path, name, file[1], c_path[1])
        ELSE FALSE

\* result ^= self.opt.invert
Invert(o, result) == result # o.invert

\* println! without the quiet option.
TestPrintLoud(o, result, name) == IF result THEN <<name>> ELSE <<>>

\* The lines println! writes for one tested file.
TestPrint(o, result, name) == IF result /\ ~o.quiet THEN <<name>> ELSE <<>>

\* Stest::test: the value returned, the lines written, and the record of
\* the call.
test(o, cmp, path, name) ==
    LET result == Invert(o, TestPlain(o, cmp, path, name))
    IN  [result |-> result,
         out |-> TestPrint(o, result, name),
         log |-> <<[path |-> path, name |-> Some(name), verdict |-> result]>>]

\* What a closure of run_opts or test_dir yields when no name is derived.
NoName(path) ==
    [result |-> FALSE, out |-> <<>>,
     log |-> <<[path |-> path, name |-> None, verdict |-> FALSE]>>]

\* The name test_dir tests a directory entry under.
EntryName(path) ==
    LET os_str == file_name(path)
    IN  IF os_str = None THEN None ELSE to_str(os_str[1])

\* The input named by its final component, as a directory entry is.
InputNameFinal(path) == EntryName(path)

\* The name run_opts tests an input under.
InputName(path) == to_str(path)

\* The closure of run_opts for one input path.
RunOptsItem(o, cmp, path) ==
    LET name == InputName(path)
    IN  IF name = None THEN NoName(path) ELSE test(o, cmp, path, name[1])

\* The closure of test_dir for one directory entry.
TestDirItem(o, cmp, path) ==
    LET name == EntryName(path)
    IN  IF name = None THEN NoName(path) ELSE test(o, cmp, path, name[1])

RECURSIVE FoldDir(_, _, _, _, _)
\* The fold of test_dir over the entries from position i on.
FoldDir(o, cmp, paths, i, st) ==
    IF i > Len(paths) THEN st
    ELSE LET r == TestDirItem(o, cmp, paths[i])
         IN  FoldDir(o, cmp, paths, i + 1,
                     [result |-> reduce(st.result, r.result),
                      out |-> st.out \o r.out, log |-> st.log \o r.log])

\* Stest::test_dir
test_dir(o, cmp, dir_path) ==
    LET dir == read_dir(dir_path)
        start == [result |-> FALSE, out |-> <<>>, log |-> <<>>]
    IN  IF dir # None THEN FoldDir(o, cmp, dir[1], 1, start) ELSE start

\* ------------------------------------------------------------------ run
\* path.metadata()?.modified()?
Modified(path) ==
    LET m == metadata(path) IN IF m = None THEN None ELSE Some(m[1].mtime)

\* The path whose time run reads, if any.
ComparePath(o) ==
    IF o.newer_than # None THEN o.newer_than
    ELSE IF o.older_than # None THEN o.older_than
    ELSE None

VARIABLES opt, compare, pc, idx, acc, stdout, log, reads, ret

vars == <<opt, compare, pc, idx, acc, stdout, log, reads, ret>>

Opts ==
    {MkOpt(on, newer, older, files) :
        on \in {s \in SUBSET OptNames : Cardinality(s) <= MaxFlags},
        newer \in {RefP, RefR}, older \in {RefQ, RefR},
        files \in UNION {[1..n -> InputPaths] : n \in 0..MaxFiles}}

Init ==
    /\ opt \in Opts
    /\ compare = None
    /\ pc = "run"
    /\ idx = 1
    /\ acc = FALSE
    /\ stdout = <<>>
    /\ log = <<>>
    /\ reads = <<>>
    /\ ret = "none"

\* run: the reference time is read and the Stest is built.
RunCompare ==
    /\ pc = "run"
    /\ \/ ComparePath(opt) = None /\ compare' = None /\ reads' = reads
       \/ /\ ComparePath(opt) # None
          /\ Modified(ComparePath(opt)[1]) # None
          /\ compare' = Modified(ComparePath(opt)[1])
          /\ reads' = Append(reads, ComparePath(opt)[1])
    /\ pc' = "stest"
    /\ UNCHANGED <<opt, idx, acc, stdout, log, ret>>

\* run: the ? operator returns the error of the reference file.
RunError ==
    /\ pc = "run"
    /\ ComparePath(opt) # None
    /\ Modified(ComparePath(opt)[1]) = None
    /\ reads' = Append(reads, ComparePath(opt)[1])
    /\ pc' = "done"
    /\ ret' = "Err"
    /\ UNCHANGED <<opt, compare, idx, acc, stdout, log>>

\* Stest::run with no files: run_stdin panics.
RunStdin ==
    /\ pc = "stest"
    /\ opt.files = <<>>
    /\ pc' = "done"
    /\ ret' = "panic"
    /\ UNCHANGED <<opt, compare, idx, acc, stdout, log, reads>>

\* Stest::run_opts, one input path of the normal mode.
RunOptsFile ==
    /\ pc = "stest"
    /\ ~opt.dir_contents
    /\ idx <= Len(opt.files)
    /\ LET r == RunOptsItem(opt, compare, opt.files[idx])
       IN  /\ acc' = reduce(acc, r.result)
           /\ stdout' = stdout \o r.out
           /\ log' = log \o r.log
    /\ idx' = idx + 1
    /\ UNCHANGED <<opt, compare, pc, reads, ret>>

\* Stest::run_opts, one input path of the directory contents mode.
RunOptsDir ==
    /\ pc = "stest"
    /\ opt.dir_contents
    /\ idx <= Len(opt.files)
    /\ LET r == test_dir(opt, compare, opt.files[idx])
       IN  /\ acc' = reduce(acc, r.result)
           /\ stdout' = stdout \o r.out
           /\ log' = log \o r.log
    /\ idx' = idx + 1
    /\ UNCHANGED <<opt, compare, pc, reads, ret>>

\* run: the fold is over and Ok(outcome) is returned.
RunReturn ==
    /\ pc = "stest"
    /\ opt.files # <<>>
    /\ idx > Len(opt.files)
    /\ pc' = "done"
    /\ ret' = IF acc THEN "Ok(true)" ELSE "Ok(false)"
    /\ UNCHANGED <<opt, compare, idx, acc, stdout, log, reads>>

Next == RunCompare \/ RunError \/ RunStdin \/ RunOptsFile \/ RunOptsDir \/ RunReturn

Spec == Init /\ [][Next]_vars

\* =============================================================== claims
\* The paths Stest::run_opts is to test: the inputs, or the entries of the
\* inputs that open as directories.
RECURSIVE CandidatesFrom(_, _)
CandidatesFrom(o, i) ==
    IF i > Len(o.files) THEN <<>>
    ELSE (IF ~o.dir_contents THEN <<o.files[i]>>
          ELSE IF read_dir(o.files[i]) = None THEN <<>>
          ELSE read_dir(o.files[i])[1]) \o CandidatesFrom(o, i + 1)
Candidates(o) == CandidatesFrom(o, 1)

LogPaths == [i \in DOMAIN log |-> log[i].path]
Returned == pc = "done" /\ ret \in {"Ok(true)", "Ok(false)"}
RefUnreadable(ref) == ref # None /\ Modified(ref[1]) = None
InStdout(name) == \E k \in DOMAIN stdout : stdout[k] = name
HasName(i) == log[i].name # None
HiddenName(i) == HasName(i) /\ starts_with_dot(log[i].name[1])

\* The letters of the enabled tests (not the modes a, l, q, v).
TestsOn(o) ==
    {t \in OptNames :
        \/ t = "b" /\ o.block_special
        \/ t = "c" /\ o.char_special
        \/ t = "d" /\ o.directory
        \/ t = "f" /\ o.regular
        \/ t = "g" /\ o.set_gid_set
        \/ t = "h" /\ o.symbolic_link
        \/ t = "n" /\ o.newer_than # None
        \/ t = "o" /\ o.older_than # None
        \/ t = "p" /\ o.fifo
        \/ t = "r" /\ o.readable
        \/ t = "s" /\ o.not_empty
        \/ t = "u" /\ o.set_uid_set
        \/ t = "w" /\ o.writable
        \/ t = "x" /\ o.executable}

\* The value the closure of the run's mode yields for a path under o.
ItemVerdict(o, cmp, path) ==
    IF o.dir_contents THEN TestDirItem(o, cmp, path).result
    ELSE RunOptsItem(o, cmp, path).result

\* C1: when run returns Ok, the entries tested are exactly the candidates
\* (the inputs, or the entries of the inputs that open as directories), the
\* outcome is true iff some candidate's verdict after inversion is true, and
\* it is false for no candidates; with a non-empty file list and readable
\* reference files run does return Ok.
OutcomeIsAnyVerdict ==
    /\ (pc = "done" /\ opt.files # <<>> /\ ~RefUnreadable(opt.newer_than)
                    /\ ~RefUnreadable(opt.older_than)) => Returned
    /\ Returned =>
          /\ LogPaths = Candidates(opt)
          /\ (ret = "Ok(true)") <=> (\E i \in DOMAIN log : log[i].verdict)
          /\ (Candidates(opt) = <<>> => ret = "Ok(false)")

\* C1 witness: a directory contents run over an input that does not open and
\* one that does, with passing and failing entries, has returned true.
OutcomeWitness ==
    /\ Returned /\ ret = "Ok(true)" /\ opt.dir_contents
    /\ \E i \in DOMAIN opt.files : read_dir(opt.files[i]) = None
    /\ \E i \in DOMAIN log : ~log[i].verdict

\* C2 (as claimed): with no reference time test, the verdict of every
\* candidate under invert is the negation of its verdict without invert.
InvertNegates ==
    (opt.newer_than = None /\ opt.older_than = None) =>
        \A i \in DOMAIN log :
            ItemVerdict([opt EXCEPT !.invert = ~opt.invert], compare, log[i].path)
                = ~log[i].verdict

\* The names of the passing entries of a log, in order.
RECURSIVE PassingNames(_, _)
PassingNames(l, i) ==
    IF i > Len(l) THEN <<>>
    ELSE (IF l[i].verdict THEN <<l[i].name[1]>> ELSE <<>>) \o PassingNames(l, i + 1)

\* C3: the lines on standard output are the display names of the entries
\* tested so far whose verdict is true, in the order tested, and none when
\* quiet is on; when run returns every candidate has been tested.
StdoutIsPassing ==
    /\ stdout = IF opt.quiet THEN <<>> ELSE PassingNames(log, 1)
    /\ Returned => Len(log) = Len(Candidates(opt))

\* C3 witness: a finished run that printed a passing entry, skipped a failing
\* one after it and printed a passing one after that.
StdoutWitness ==
    /\ Returned /\ ~opt.quiet /\ Len(stdout) >= 2
    /\ \E i, j, k \in DOMAIN log :
          i < j /\ j < k /\ log[i].verdict /\ ~log[j].verdict /\ log[k].verdict

\* An entry whose metadata, display name or C path is not to be had.
EntryFails(i) ==
    metadata(log[i].path) = None \/ ~HasName(i) \/ CPath(log[i].path) = None

\* C4 (as claimed): an entry with a per-entry failure has the verdict false
\* without invert and true with invert, and is then printed unless quiet;
\* the run still tests every candidate and returns Ok.
EntryFailureInverts ==
    /\ \A i \in DOMAIN log :
          EntryFails(i) =>
              /\ log[i].verdict = opt.invert
              /\ (opt.invert /\ ~opt.quiet) => (HasName(i) /\ InStdout(log[i].name[1]))
    /\ (pc = "done" /\ ret # "Err" /\ opt.files # <<>>) =>
          (Returned /\ LogPaths = Candidates(opt))

\* C5 (as claimed): when a configured newer-than or older-than path cannot
\* be read, run (on a non-empty file list) returns the error, tests no entry
\* and prints nothing; the reference time is read at most once.
RefErrorAborts ==
    /\ (opt.files # <<>> /\ (RefUnreadable(opt.newer_than) \/ RefUnreadable(opt.older_than))) =>
          /\ log = <<>> /\ stdout = <<>> /\ acc = FALSE
          /\ pc = "done" => ret = "Err"
    /\ Len(reads) <= 1

\* C6 (as claimed): without invert, set-user-id makes every passing entry
\* have the set-user-ID bit, and with set-group-id as the only test an
\* entry with the set-group-ID bit and without the set-user-ID bit passes.
SetUidGated ==
    ~opt.invert =>
        \A i \in DOMAIN log :
            LET file == metadata(log[i].path)
            IN  /\ (opt.set_uid_set /\ log[i].verdict) =>
                      (file # None /\ s_isset(S_ISUID, file[1]))
                /\ (/\ TestsOn(opt) = {"g"} /\ file # None /\ HasName(i)
                    /\ CPath(log[i].path) # None /\ ~HiddenName(i)
                    /\ s_isset(S_ISGID, file[1]) /\ ~s_isset(S_ISUID, file[1]))
                      => log[i].verdict

\* C7 (as claimed): without allow-hidden an entry whose display name starts
\* with '.' has the verdict false and is not printed, whatever the other
\* options are.
HiddenNeverPasses ==
    ~opt.hidden =>
        \A i \in DOMAIN log :
            HiddenName(i) => (~log[i].verdict /\ ~InStdout(log[i].name[1]))

\* C7 (amended): without allow-hidden an entry whose display name starts
\* with '.' fails the conjunction whatever the other tests are: its verdict
\* is the invert option, and it is printed exactly when invert is on and
\* quiet is off.
HiddenFailsBeforeInvert ==
    ~opt.hidden =>
        \A i \in DOMAIN log :
            HiddenName(i) =>
                /\ log[i].verdict = opt.invert
                /\ InStdout(log[i].name[1]) <=> (opt.invert /\ ~opt.quiet)

\* C7 witness: a hidden entry was tested without allow-hidden and with
\* invert, and its name is on standard output.
HiddenWitness ==
    /\ ~opt.hidden /\ opt.invert
    /\ \E i \in DOMAIN log :
          HiddenName(i) /\ log[i].verdict /\ InStdout(log[i].name[1])
                        /\ metadata(log[i].path) # None

\* Both reference files can be read when configured.
RefsReadable == ~RefUnreadable(opt.newer_than) /\ ~RefUnreadable(opt.older_than)

\* C8 (as claimed): without invert and with newer-than=P and/or older-than=Q
\* as the only tests, a named, non-hidden entry with metadata passes iff its
\* modification time is after P's (when newer-than is set) and before Q's
\* (when older-than is set).
TimeTestsStrict ==
    (~opt.invert /\ TestsOn(opt) # {} /\ TestsOn(opt) \subseteq {"n", "o"}
                 /\ RefsReadable) =>
        \A i \in DOMAIN log :
            LET file == metadata(log[i].path)
            IN  (file # None /\ HasName(i) /\ ~HiddenName(i)
                             /\ CPath(log[i].path) # None) =>
                    (log[i].verdict <=>
                        /\ (opt.newer_than # None =>
                               file[1].mtime > Modified(opt.newer_than[1])[1])
                        /\ (opt.older_than # None =>
                               file[1].mtime < Modified(opt.older_than[1])[1]))

\* The final component of a path, or its string form when it has none.
FinalOrWhole(path) == IF file_name(path) # None THEN file_name(path) ELSE Some(path)

\* C9 (as claimed): in both modes the display name of an entry, which the
\* hidden test inspects and which is printed, is the final component of its
\* path, and the whole path only when there is no final component.
NameIsFinalComponent ==
    \A i \in DOMAIN log : HasName(i) => log[i].name = FinalOrWhole(log[i].path)

\* C9 (amended): the display name is the final component of the path in the
\* directory contents mode and the whole string form of the input path in
\* the normal mode; that name is what the hidden test inspects and what is
\* printed.
NameByMode ==
    \A i \in DOMAIN log :
        HasName(i) =>
            /\ log[i].name = IF opt.dir_contents THEN file_name(log[i].path)
                             ELSE Some(log[i].path)
            /\ (~opt.hidden /\ ~opt.invert /\ starts_with_dot(log[i].name[1]))
                  => ~log[i].verdict
            /\ (log[i].verdict /\ ~opt.quiet) => InStdout(log[i].name[1])

\* C9 witness: in the normal mode the input ./d passed and was printed as
\* ./d, which is not its final component.
NameWitness ==
    /\ ~opt.dir_contents
    /\ \E i \in DOMAIN log :
          /\ log[i].path = PathD /\ log[i].verdict /\ InStdout(PathD)
          /\ file_name(PathD) # Some(PathD)

\* The configurations and entries C10 is about.
OnlySymlinkTest(i) ==
    TestsOn(opt) = {"h"} /\ ~opt.invert /\ HasName(i) /\ ~HiddenName(i)

\* C10 (as claimed): with the symbolic link test alone, an entry (here one
\* whose path has a C string form) passes exactly when it is itself a
\* symbolic link, whatever the target.
SymlinkWhateverTarget ==
    \A i \in DOMAIN log :
        (OnlySymlinkTest(i) /\ CPath(log[i].path) # None) =>
            (log[i].verdict <=> is_symlink(log[i].path))

\* C10 (amended): with the symbolic link test alone, an entry passes exactly
\* when it is itself a symbolic link, the link's target resolves, and the
\* path has a C string form; a link to a missing target fails.
SymlinkResolvedTarget ==
    \A i \in DOMAIN log :
        OnlySymlinkTest(i) =>
            (log[i].verdict <=>
                /\ Node(log[i].path) # None
                /\ BitAnd(Node(log[i].path)[1].st_mode, S_IFMT) = S_IFLNK
                /\ metadata(log[i].path) # None
                /\ CPath(log[i].path) # None)

\* C10 witness: of the entries of ./d under the symbolic link test alone,
\* the link to a regular file passed and the dangling link failed.
SymlinkWitness ==
    \E i, j \in DOMAIN log :
        /\ OnlySymlinkTest(i) /\ OnlySymlinkTest(j)
        /\ log[i].path = JoinPath(PathD, <<"l">>) /\ log[i].verdict
        /\ log[j].path = JoinPath(PathD, <<"x">>) /\ ~log[j].verdict

====
